---- MODULE Spec2Model ----
(***************************************************************************)
(* Model of SyncClient._request (openrobot/api_wrapper/_sync.py): header   *)
(* merge, URL normalisation, and the status dispatch / rate-limit retry    *)
(* loop.  Each client c performs one call of _request; the server's        *)
(* answers are recorded in `served`, so that two clients issuing the same  *)
(* call see the same sequence of responses.                                *)
(*                                                                         *)
(* Python values are encoded as follows.                                   *)
(*   str used as URL : sequence of one-character strings                   *)
(*   Optional[int]   : [none : BOOLEAN, n : Int]                           *)
(*   kwargs          : record whose fields are <<>> (key absent) or <<v>>  *)
(*   dict of headers : function from header names to values                *)
(***************************************************************************)
EXTENDS Integers, Sequences, FiniteSets, TLC

\* ------------------------------------------------------------------ bounds
MaxTries == 2
MaxRequests == 3
MaxDelay == 2

\* ------------------------------------------------- status codes of the code
Forbidden403 == 403
BadRequest400 == 400
InternalServerError500 == 500
TooManyRequests429 == 429
SuccessLow == 200
SuccessHigh == 300

\* ---------------------------------------------------------------- strings
\* 'https://api.openrobot.xyz/api'
BaseUrl ==
  <<"h","t","t","p","s",":","/","/","a","p","i",".","o","p","e","n","r","o","b","o","t",
    ".","x","y","z","/","a","p","i">>

\* The characters of the class [api.openrobot.xyz|lyrics.ayomerdeka.com]
HostClass ==
  {"a","p","i",".","o","e","n","r","b","t","x","y","z","|","l","c","s","m","d","k"}

StartsWith(s, p) == Len(s) >= Len(p) /\ SubSeq(s, 1, Len(p)) = p

\* Python slice s[k:]
SliceFrom(s, k) == IF k >= Len(s) THEN <<>> ELSE SubSeq(s, k + 1, Len(s))

\* ------------------------------------------------------- optional integers
NoneT == [none |-> TRUE, n |-> 0]
IntT(k) == [none |-> FALSE, n |-> k]

\* --------------------------------------------------------------- responses
NoRetryAfter == [has |-> FALSE, num |-> FALSE, secs |-> 0]
RetrySecs(k) == [has |-> TRUE, num |-> TRUE, secs |-> k]
RetryDate == [has |-> TRUE, num |-> FALSE, secs |-> 0]

JsonBodies == {"json-a", "json-b"}
NotJson == "<html>"
NoJs == ""

Statuses == {200, 299, 300, 400, 403, 404, 429, 500}

\* r before the first assignment of line 100 (an unbound local)
NoResp == [status |-> 0, retry_after |-> NoRetryAfter, body |-> NoJs]

Responses ==
  { x \in [status : Statuses,
           retry_after : {NoRetryAfter, RetryDate} \cup {RetrySecs(k) : k \in 1..MaxDelay},
           body : JsonBodies \cup {NotJson}] :
      /\ (x.status # TooManyRequests429 => x.retry_after = NoRetryAfter)
      /\ (x.body = NotJson => x.status \in {200, 429, 500}) }

\* ----------------------------------------------------------------- kwargs
Absent == <<>>
Has(kw, k) == kw[k] # Absent
Get(kw, k) == kw[k][1]
Pop(kw, k) == [kw EXCEPT ![k] = Absent]
Put(kw, k, v) == [kw EXCEPT ![k] = <<v>>]

Dict(d) == [isdict |-> TRUE, items |-> d]
NotADict == [isdict |-> FALSE, items |-> <<>>]

\* dict.update
DictUpdate(d, h) ==
  [k \in DOMAIN d \cup DOMAIN h |-> IF k \in DOMAIN h THEN h[k] ELSE d[k]]

\* Python truthiness of the headers argument
Truthy(h) == IF h.isdict THEN DOMAIN h.items # {} ELSE TRUE


\* ------------------------------------------------- helpers of SyncClient
\* _get_authorization_headers() with the defaults token=None, header=True
GetAuthorizationHeaders(token) == [k \in {"Authorization"} |-> token]

\* line 75: kwargs.get('headers') and isinstance(kwargs.get('headers'), dict)
TakesCallerHeaders(kw) ==
  /\ Has(kw, "headers")
  /\ Truthy(Get(kw, "headers"))
  /\ Get(kw, "headers").isdict

\* lines 83-84
StripSlash(url) == IF ~StartsWith(url, <<"/">>) THEN SliceFrom(url, 1) ELSE url

\* lines 88-89
StripApi(url) == IF ~StartsWith(url, <<"a","p","i","/">>) THEN SliceFrom(url, 4) ELSE url

\* line 91: re.match('^http[s]?://[api.openrobot.xyz|lyrics.ayomerdeka.com]/', url)
ReMatch(url) ==
  /\ StartsWith(url, <<"h","t","t","p">>)
  /\ LET i == IF Len(url) >= 5 /\ url[5] = "s" THEN 6 ELSE 5
     IN /\ Len(url) >= i + 4
        /\ SubSeq(url, i, i + 2) = <<":","/","/">>
        /\ url[i + 3] \in HostClass
        /\ url[i + 4] = "/"

\* line 96: int(self.tries) if self.tries is not None else None
IntTries(t) == IF ~t.none THEN IntT(t.n) ELSE NoneT

\* mutant of LoopContinues: the None case of the loop test is lost
LoopContinuesBounded(t) == ~t.none /\ t.n > 0

\* line 98: tries is None or tries > 0
LoopContinues(t) == t.none \/ t.n > 0

\* mutant of InReturnOn: the pass-through set is ignored
InReturnOnNever(status, return_on) == FALSE

\* line 104: r.status_code in return_on
InReturnOn(status, return_on) == status \in return_on

\* mutant of ErrorClass: the classes of 400 and 500 are exchanged
ErrorClassSwapped(status) ==
  IF status = Forbidden403 THEN "Forbidden"
  ELSE IF status = BadRequest400 THEN "InternalServerError"
  ELSE IF status = InternalServerError500 THEN "BadRequest"
  ELSE ""

\* lines 109-114: the typed error of a status, "" when it has none
ErrorClass(status) ==
  IF status = Forbidden403 THEN "Forbidden"
  ELSE IF status = BadRequest400 THEN "BadRequest"
  ELSE IF status = InternalServerError500 THEN "InternalServerError"
  ELSE ""

\* mutant of RaisesOnRatelimit: a 429 is always handled by sleeping
RaisesOnRatelimitNever(handle_ratelimit) == FALSE

\* line 116: not self.handle_ratelimit
RaisesOnRatelimit(handle_ratelimit) == ~handle_ratelimit

\* mutant of HasRetryAfter: a missing header is not noticed
HasRetryAfterAlways(r) == TRUE

\* line 120: the lookup r.headers['Retry-After'] succeeds
HasRetryAfter(r) == r.retry_after.has

\* mutant of DecTries: the counter is never decremented
DecTriesNever(t) == t

\* lines 124-125: if tries: tries -= 1
DecTries(t) == IF ~t.none /\ t.n # 0 THEN IntT(t.n - 1) ELSE t

\* line 126: 200 <= r.status_code < 300
IsSuccess(status) == SuccessLow <= status /\ status < SuccessHigh

\* lines 105-108, 127-130: the value returned
Returned(raw, r, js) ==
  IF raw THEN [kind |-> "return", exc |-> "", msg |-> "", resp |-> r, js |-> NoJs]
  ELSE [kind |-> "return", exc |-> "", msg |-> "", resp |-> NoResp, js |-> js]

\* raise cls(r, js)
Raised(exc, msg, r, js) == [kind |-> "raise", exc |-> exc, msg |-> msg, resp |-> r, js |-> js]

Running == [kind |-> "none", exc |-> "", msg |-> "", resp |-> NoResp, js |-> NoJs]

\* ------------------------------------------------------------------ state
VARIABLES
  self,     \* self[c]: the fields of client c set by __init__
  call,     \* call[c]: the arguments of c's call of _request
  fr,       \* fr[c]: position and locals of c's call
  sent,     \* sent[c]: the requests c handed to the transport, in order
  slept,    \* slept[c]: the arguments of c's calls of time.sleep, in order
  outcome,  \* outcome[c]: how c's call ended
  served    \* the responses the server has produced, in order

vars == <<self, call, fr, sent, slept, outcome, served>>

\* the clients a behaviour may hold, and those it holds
ClientIds == {1, 2}
Clients == DOMAIN self

\* ------------------------------------------------------------ input sets
Tokens == {"I-Am-Testing"}

TriesValues == {NoneT} \cup {IntT(k) : k \in (-1)..MaxTries}

\* '/api/ocr', 'api/ocr', 'https://evil.io/x', '/v1/https://x/y', ''
UrlSlashApi == <<"/","a","p","i","/","o","c","r">>
UrlApi == <<"a","p","i","/","o","c","r">>
UrlForeign == <<"h","t","t","p","s",":","/","/","e","v","i","l",".","i","o","/","x">>
UrlEmbedded == <<"/","v","1","/","h","t","t","p","s",":","/","/","x","/","y">>
UrlEmpty == <<>>
Urls == {UrlSlashApi, UrlApi, UrlForeign, UrlEmbedded, UrlEmpty}

HeaderArgs ==
  { Absent, <<Dict(<<>>)>>, <<NotADict>>,
    <<Dict("X-Trace" :> "1")>>, <<Dict("Authorization" :> "caller-token")>> }
ReturnOnArgs == { Absent, <<{429}>>, <<{400, 403, 500}>>, <<{200, 404}>> }
RawArgs == { Absent, <<TRUE>> }
NoUrlRegexArgs == { Absent, <<FALSE>>, <<TRUE>> }

KwargsSet ==
  [headers : HeaderArgs, return_on : ReturnOnArgs, raw : RawArgs,
   no_url_regex : NoUrlRegexArgs]

\* the frame of a call on entry: no local is bound yet
Entry(url, kwargs) ==
  [pc |-> "headers", url |-> url, kwargs |-> kwargs, return_on |-> {}, raw |-> FALSE,
   tries |-> NoneT, r |-> NoResp, js |-> NoJs]

InitOf(cs, selfs, url, kwargs) ==
  /\ self = selfs
  /\ call = [c \in cs |-> [url |-> url, kwargs |-> kwargs]]
  /\ fr = [c \in cs |-> Entry(url, kwargs)]
  /\ sent = [c \in cs |-> <<>>]
  /\ slept = [c \in cs |-> <<>>]
  /\ outcome = [c \in cs |-> Running]
  /\ served = <<>>

\* one client, constructed by __init__ (lines 48-60), about to call _request
Init ==
  \E token \in Tokens, hr \in BOOLEAN, tries \in TriesValues, url \in Urls, kwargs \in KwargsSet :
    InitOf({1}, [c \in {1} |-> [token |-> token, handle_ratelimit |-> hr, tries |-> tries]],
           url, kwargs)

\* --------------------------------------------------------------- actions
Finish(c, o) ==
  /\ fr' = [fr EXCEPT ![c].pc = "done"]
  /\ outcome' = [outcome EXCEPT ![c] = o]

\* A thread runs its calls one after the other (_request is synchronous and
\* blocking): client c's call starts when the calls of the clients before it ended.
Turn(c) == c \in Clients /\ \A d \in Clients : d < c => fr[d].pc = "done"

\* lines 72-79
MergeHeaders(c) ==
  /\ Turn(c)
  /\ fr[c].pc = "headers"
  /\ LET headers == GetAuthorizationHeaders(self[c].token)
         kw == fr[c].kwargs
     IN IF TakesCallerHeaders(kw)
        THEN LET popped == Pop(kw, "headers")           \* line 76
             IN IF Has(popped, "headers")               \* line 77: kwargs['headers']
                THEN /\ fr' = [fr EXCEPT ![c].pc = "url",
                                         ![c].kwargs =
                                            Put(popped, "headers",
                                                Dict(DictUpdate(Get(popped, "headers").items,
                                                                headers)))]
                     /\ UNCHANGED outcome
                ELSE Finish(c, Raised("KeyError", "headers", NoResp, NoJs))
        ELSE /\ fr' = [fr EXCEPT ![c].pc = "url",
                                 ![c].kwargs = Put(kw, "headers", Dict(headers))]
             /\ UNCHANGED outcome
  /\ UNCHANGED <<self, call, sent, slept, served>>

\* lines 81-96
NormalizeUrl(c) ==
  /\ Turn(c)
  /\ fr[c].pc = "url"
  /\ LET kw0 == fr[c].kwargs
         return_on == IF Has(kw0, "return_on") THEN Get(kw0, "return_on") ELSE {}
         kw1 == Pop(kw0, "return_on")
         url1 == StripSlash(fr[c].url)
         raw == IF Has(kw1, "raw") THEN Get(kw1, "raw") ELSE FALSE
         kw2 == Pop(kw1, "raw")
         url2 == StripApi(url1)
         skip == IF Has(kw2, "no_url_regex") THEN Get(kw2, "no_url_regex") ELSE FALSE
         kw3 == Pop(kw2, "no_url_regex")
     IN IF ~ReMatch(url2) /\ ~skip
        THEN /\ fr' = [fr EXCEPT ![c].pc = "loop", ![c].kwargs = kw3,
                                 ![c].return_on = return_on, ![c].raw = raw,
                                 ![c].url = BaseUrl \o url2,
                                 ![c].tries = IntTries(self[c].tries)]
             /\ UNCHANGED outcome
        ELSE Finish(c, Raised("TypeError", "URL is not a valid HTTP/HTTPs URL.", NoResp, NoJs))
  /\ UNCHANGED <<self, call, sent, slept, served>>

\* line 98, and line 138 when the loop ends
LoopTest(c) ==
  /\ Turn(c)
  /\ fr[c].pc = "loop"
  /\ IF LoopContinues(fr[c].tries)
     THEN /\ fr' = [fr EXCEPT ![c].pc = "send"]
          /\ UNCHANGED outcome
     ELSE IF fr[c].r = NoResp
          THEN Finish(c, Raised("UnboundLocalError", "r", NoResp, NoJs))
          ELSE Finish(c, Raised("TooManyRequests", "", fr[c].r, fr[c].js))
  /\ UNCHANGED <<self, call, sent, slept, served>>

\* the responses the server may give to c's next request
NextResponses(c) ==
  IF Len(sent[c]) < Len(served) THEN {served[Len(sent[c]) + 1]} ELSE Responses

\* lines 99-102
Send(c) ==
  /\ Turn(c)
  /\ fr[c].pc = "send"
  /\ Len(sent[c]) < MaxRequests
  /\ \E resp \in NextResponses(c) :
       /\ served' = IF Len(sent[c]) < Len(served) THEN served ELSE Append(served, resp)
       /\ sent' = [sent EXCEPT ![c] = Append(@, [url |-> fr[c].url,
                                                  headers |-> Get(fr[c].kwargs, "headers").items])]
       /\ IF resp.body \in JsonBodies
          THEN /\ fr' = [fr EXCEPT ![c].pc = "dispatch", ![c].r = resp, ![c].js = resp.body]
               /\ UNCHANGED outcome
          ELSE /\ fr' = [fr EXCEPT ![c].pc = "done", ![c].r = resp]
               /\ outcome' = [outcome EXCEPT ![c] = Raised("JSONDecodeError", "", NoResp, NoJs)]
  /\ UNCHANGED <<self, call, slept>>

\* lines 104-136
Dispatch(c) ==
  /\ Turn(c)
  /\ fr[c].pc = "dispatch"
  /\ LET r == fr[c].r
         js == fr[c].js
         status == r.status
     IN IF InReturnOn(status, fr[c].return_on)
        THEN Finish(c, Returned(fr[c].raw, r, js)) /\ UNCHANGED slept
        ELSE IF ErrorClass(status) # ""
        THEN Finish(c, Raised(ErrorClass(status), "", r, js)) /\ UNCHANGED slept
        ELSE IF status = TooManyRequests429
        THEN IF RaisesOnRatelimit(self[c].handle_ratelimit)
             THEN Finish(c, Raised("TooManyRequests", "", r, js)) /\ UNCHANGED slept
             ELSE IF ~HasRetryAfter(r)
             THEN /\ Finish(c, Raised("KeyError", "Retry-After header is not present.",
                                      NoResp, NoJs))
                  /\ UNCHANGED slept
             ELSE IF ~r.retry_after.num
             THEN Finish(c, Raised("ValueError", "", NoResp, NoJs)) /\ UNCHANGED slept
             ELSE /\ slept' = [slept EXCEPT ![c] = Append(@, r.retry_after.secs)]
                  /\ fr' = [fr EXCEPT ![c].pc = "loop", ![c].tries = DecTries(@)]
                  /\ UNCHANGED outcome
        ELSE IF IsSuccess(status)
        THEN Finish(c, Returned(fr[c].raw, r, js)) /\ UNCHANGED slept
        ELSE Finish(c, Raised("OpenRobotAPIError", "", r, js)) /\ UNCHANGED slept
  /\ UNCHANGED <<self, call, sent, served>>

Next ==
  \E c \in ClientIds :
    \/ MergeHeaders(c)
    \/ NormalizeUrl(c)
    \/ LoopTest(c)
    \/ Send(c)
    \/ Dispatch(c)

Spec == Init /\ [][Next]_vars

\* Two clients that differ only in tries make the same call, one after the other,
\* against a server that answers the k-th request of each with the same response.
PairReturnOnArgs == { Absent, <<{429}>> }

InitPair ==
  \E token \in Tokens, hr \in BOOLEAN, t1 \in TriesValues, t2 \in TriesValues,
     ro \in PairReturnOnArgs, raw \in RawArgs :
    /\ t1 # t2
    /\ InitOf({1, 2},
              [c \in {1, 2} |-> [token |-> token, handle_ratelimit |-> hr,
                                 tries |-> IF c = 1 THEN t1 ELSE t2]],
              UrlSlashApi,
              [headers |-> Absent, return_on |-> ro, raw |-> raw, no_url_regex |-> Absent])

SpecPair == InitPair /\ [][Next]_vars


\* ================================================================= claims
\* The arguments of c's call, with the defaults of lines 81, 86 and 91.
ArgReturnOn(c) ==
  IF Has(call[c].kwargs, "return_on") THEN Get(call[c].kwargs, "return_on") ELSE {}
ArgRaw(c) == IF Has(call[c].kwargs, "raw") THEN Get(call[c].kwargs, "raw") ELSE FALSE
ArgSkip(c) ==
  IF Has(call[c].kwargs, "no_url_regex") THEN Get(call[c].kwargs, "no_url_regex") ELSE FALSE

\* c classifies the response it holds (lines 104-136) in this step
DispatchStep(c) == c \in Clients /\ fr[c].pc = "dispatch" /\ fr'[c].pc # "dispatch"

\* c's call ended in this step without sleeping or sending
EndsWith(c, o) ==
  /\ fr'[c].pc = "done"
  /\ outcome'[c] = o
  /\ slept'[c] = slept[c]
  /\ sent'[c] = sent[c]

\* the k-th response c received, and the seconds of its Retry-After
Resp(c, k) == served[k]
IsRatelimit(x) ==
  x.status = TooManyRequests429 /\ x.retry_after.has /\ x.retry_after.num
    /\ x.body \in JsonBodies
TypedErrorOf(status) ==
  CASE status = 400 -> "BadRequest"
    [] status = 403 -> "Forbidden"
    [] status = 500 -> "InternalServerError"

\* ---- C1.  A decoded response with status 400, 403 or 500 that is not in
\* return_on ends the call at once with BadRequest, Forbidden or
\* InternalServerError carrying that response and its body: nothing is slept
\* or sent for it, every earlier request was a slept 429 (so the first such
\* response ends the call after one request and no sleep), whatever
\* handle_ratelimit and the try bound are.
C1_TypedErrors ==
  [][\A c \in ClientIds :
       (DispatchStep(c) /\ fr[c].r.status \in {400, 403, 500}
          /\ fr[c].r.status \notin ArgReturnOn(c))
       => /\ EndsWith(c, Raised(TypedErrorOf(fr[c].r.status), "", fr[c].r, fr[c].r.body))
          /\ Len(sent[c]) = Len(slept[c]) + 1
          /\ (\A k \in 1..(Len(sent[c]) - 1) : IsRatelimit(Resp(c, k)))]_vars

C1_Witness ==
  \E c \in Clients :
    /\ fr[c].pc = "done"
    /\ outcome[c] = Raised("BadRequest", "", fr[c].r, fr[c].js)
    /\ fr[c].r.status = 400
    /\ self[c].handle_ratelimit /\ self[c].tries = IntT(2)
    /\ Len(sent[c]) = 1 /\ slept[c] = <<>>

\* ---- C2.  With handle_ratelimit on, a try bound N >= 1 and 429 not in
\* return_on: never more than N requests are issued; as long as every
\* response is a decoded 429 with a Retry-After number, each was followed by
\* a sleep of that many seconds before the next request, no request follows
\* the N-th, and the call can only end, after exactly N requests, with
\* TooManyRequests carrying the last response and body; when the last
\* response is a decoded non-429, the call ends with an outcome built from it.
C2_BoundedRetry ==
  \A c \in Clients :
    (self[c].handle_ratelimit /\ ~self[c].tries.none /\ self[c].tries.n >= 1
       /\ TooManyRequests429 \notin ArgReturnOn(c) /\ Len(sent[c]) >= 1)
    => LET N == self[c].tries.n
           n == Len(sent[c])
           handled == IF fr[c].pc = "dispatch" THEN n - 1 ELSE n
       IN /\ n <= N
          /\ (\A k \in 1..n : IsRatelimit(Resp(c, k)))
             => /\ slept[c] = [k \in 1..handled |-> Resp(c, k).retry_after.secs]
                /\ (fr[c].pc = "send" => n < N)
                /\ (fr[c].pc = "done"
                      => /\ n = N
                         /\ outcome[c] =
                              Raised("TooManyRequests", "", Resp(c, N), Resp(c, N).body))
          /\ (fr[c].pc = "done" /\ Resp(c, n).status # TooManyRequests429
                /\ Resp(c, n).body \in JsonBodies)
             => /\ outcome[c].exc # "TooManyRequests"
                /\ outcome[c].resp = Resp(c, n) \/ outcome[c].js = Resp(c, n).body
                /\ slept[c] = [k \in 1..(n - 1) |-> Resp(c, k).retry_after.secs]

C2_Witness ==
  \E c \in Clients :
    /\ self[c].handle_ratelimit /\ self[c].tries = IntT(2)
    /\ fr[c].pc = "done"
    /\ outcome[c].exc = "TooManyRequests"
    /\ Len(sent[c]) = 2
    /\ slept[c] = <<1, 2>>
    /\ outcome[c].resp = served[2] /\ served[1] # served[2]

\* ---- C3.  A decoded response whose status is in [200,300) or in return_on
\* ends the call by returning its body (the response itself when raw is
\* asked for), with no sleep and no further request, also when the status is
\* 400, 403, 429 or 500.
C3_PassThrough ==
  [][\A c \in ClientIds :
       (DispatchStep(c)
          /\ \/ (200 <= fr[c].r.status /\ fr[c].r.status < 300)
             \/ fr[c].r.status \in ArgReturnOn(c))
       => EndsWith(c, IF ArgRaw(c)
                      THEN [kind |-> "return", exc |-> "", msg |-> "",
                            resp |-> fr[c].r, js |-> NoJs]
                      ELSE [kind |-> "return", exc |-> "", msg |-> "",
                            resp |-> NoResp, js |-> fr[c].r.body])]_vars

C3_Witness ==
  \E c \in Clients :
    /\ fr[c].pc = "done"
    /\ outcome[c].kind = "return"
    /\ fr[c].r.status = 429 /\ 429 \in ArgReturnOn(c)
    /\ fr[c].r.retry_after = RetrySecs(1)
    /\ self[c].handle_ratelimit
    /\ outcome[c].js = fr[c].r.body /\ outcome[c].js \in JsonBodies
    /\ slept[c] = <<>>

\* ---- C4.  With handle_ratelimit off, a decoded 429 that is not in
\* return_on ends the call at once with TooManyRequests carrying that
\* response and body, whether or not it has a Retry-After header; it is the
\* first response, nothing was slept and nothing more is sent.
C4_NoHandling ==
  [][\A c \in ClientIds :
       (DispatchStep(c) /\ ~self[c].handle_ratelimit
          /\ fr[c].r.status = 429 /\ 429 \notin ArgReturnOn(c))
       => /\ EndsWith(c, Raised("TooManyRequests", "", fr[c].r, fr[c].r.body))
          /\ Len(sent[c]) = 1
          /\ slept[c] = <<>>]_vars

C4_Witness ==
  \E c \in Clients :
    /\ ~self[c].handle_ratelimit
    /\ fr[c].pc = "done"
    /\ outcome[c] = Raised("TooManyRequests", "", fr[c].r, fr[c].js)
    /\ fr[c].r.retry_after = NoRetryAfter
    /\ Len(sent[c]) = 1 /\ slept[c] = <<>>

\* ---- C5.  With handle_ratelimit on, a decoded 429 that is not in
\* return_on and has no Retry-After header ends the call at once with
\* KeyError: no sleep, no decrement of the try counter, no further request,
\* also when tries remain or tries is None.
C5_MissingRetryAfter ==
  [][\A c \in ClientIds :
       (DispatchStep(c) /\ self[c].handle_ratelimit
          /\ fr[c].r.status = 429 /\ 429 \notin ArgReturnOn(c)
          /\ ~fr[c].r.retry_after.has)
       => /\ EndsWith(c, Raised("KeyError", "Retry-After header is not present.",
                                NoResp, NoJs))
          /\ fr'[c].tries = fr[c].tries]_vars

C5_Witness ==
  \E c \in Clients :
    /\ self[c].handle_ratelimit /\ self[c].tries = NoneT
    /\ fr[c].pc = "done"
    /\ outcome[c].exc = "KeyError" /\ outcome[c].msg = "Retry-After header is not present."
    /\ fr[c].r.status = 429 /\ ~fr[c].r.retry_after.has
    /\ Len(sent[c]) = 2 /\ slept[c] = <<2>>

\* ---- C6.  (as claimed) A call whose target is a fully-qualified URL of a
\* host that is not allowed, made without no_url_regex, ends with TypeError
\* once the URL has been looked at, and sends nothing.
C6_ForeignUrlRejected ==
  \A c \in Clients :
    (call[c].url = UrlForeign /\ ~ArgSkip(c) /\ fr[c].pc \notin {"headers", "url"}
       /\ outcome[c].msg # "headers")
    => /\ outcome[c] = Raised("TypeError", "URL is not a valid HTTP/HTTPs URL.", NoResp, NoJs)
       /\ sent[c] = <<>>

\* ---- C7.  (as claimed) Whatever headers the caller passes, the call gets
\* past the header merge; a non-empty dict of caller headers is sent with the
\* caller's values, Authorization included; without caller headers the
\* request carries Authorization = the stored token.
C7_HeaderMerge ==
  \A c \in Clients :
    LET h == call[c].kwargs.headers
        given == h # Absent /\ h[1].isdict /\ DOMAIN h[1].items # {}
    IN /\ fr[c].pc # "headers" => outcome[c] # Raised("KeyError", "headers", NoResp, NoJs)
       /\ \A i \in 1..Len(sent[c]) :
            IF given
            THEN \A k \in DOMAIN h[1].items :
                   k \in DOMAIN sent[c][i].headers /\ sent[c][i].headers[k] = h[1].items[k]
            ELSE sent[c][i].headers = [k \in {"Authorization"} |-> self[c].token]

\* ---- C8.  (as claimed) With handle_ratelimit off, two clients that differ
\* only in tries and make the same call against the same responses send the
\* same requests and end with the same outcome.
C8_TriesIrrelevant ==
  ({1, 2} \subseteq Clients /\ ~self[1].handle_ratelimit /\ ~self[2].handle_ratelimit
     /\ fr[1].pc = "done" /\ fr[2].pc = "done")
  => (sent[1] = sent[2] /\ outcome[1] = outcome[2])

\* ---- C9.  (as claimed) With tries None and handle_ratelimit on, every
\* decoded 429 with a Retry-After number is slept and followed by another
\* turn of the loop.
C9_AlwaysRetries ==
  [][\A c \in ClientIds :
       (DispatchStep(c) /\ self[c].tries.none /\ self[c].handle_ratelimit
          /\ IsRatelimit(fr[c].r))
       => /\ fr'[c].pc = "loop"
          /\ slept'[c] = Append(slept[c], fr[c].r.retry_after.secs)]_vars

\* ---- C9.  (amended) With tries None, handle_ratelimit on and 429 not in
\* return_on: every decoded 429 with a Retry-After number is slept for that
\* long and leads back to the loop with tries still None, the loop test then
\* goes on to the next request, the call never ends with TooManyRequests, and
\* when it has ended after a request, the last response was not such a 429.
C9_UnboundedRetry ==
  /\ [](\A c \in Clients :
          (self[c].tries.none /\ self[c].handle_ratelimit
             /\ TooManyRequests429 \notin ArgReturnOn(c))
          => /\ outcome[c].exc # "TooManyRequests"
             /\ (fr[c].pc = "done" /\ Len(sent[c]) >= 1)
                  => ~IsRatelimit(Resp(c, Len(sent[c]))))
  /\ [][\A c \in ClientIds :
          (c \in Clients /\ self[c].tries.none /\ self[c].handle_ratelimit
             /\ TooManyRequests429 \notin ArgReturnOn(c))
          => /\ (DispatchStep(c) /\ IsRatelimit(fr[c].r))
                  => /\ fr'[c].pc = "loop"
                     /\ fr'[c].tries = NoneT
                     /\ slept'[c] = Append(slept[c], fr[c].r.retry_after.secs)
                     /\ outcome'[c] = Running
             /\ (fr[c].pc = "loop" /\ fr'[c] # fr[c]) => fr'[c].pc = "send"]_vars

C9_Witness ==
  \E c \in Clients :
    /\ self[c].tries.none /\ self[c].handle_ratelimit
    /\ TooManyRequests429 \notin ArgReturnOn(c)
    /\ fr[c].pc = "send"
    /\ Len(sent[c]) = MaxRequests - 1
    /\ Len(slept[c]) = MaxRequests - 1
    /\ \A k \in 1..Len(sent[c]) : IsRatelimit(Resp(c, k))

\* ---- C10.  (as claimed) Every request of a call whose target is '/api/ocr'
\* or 'api/ocr' goes to 'https://api.openrobot.xyz/api/ocr'.
C10_RelativeUrls ==
  \A c \in Clients :
    call[c].url \in {UrlSlashApi, UrlApi}
    => \A i \in 1..Len(sent[c]) : sent[c][i].url = BaseUrl \o <<"/","o","c","r">>

====
